---- MODULE Spec2Model ----
(***************************************************************************)
(* Model of app/domain/services/usecases.py: the detection-event use cases *)
(* (AddDetectionEventUseCase, ListDetectionEventsUseCase) and the Datumaro *)
(* exporter (ExportDatumaroUseCase) over a detection-event repository.     *)
(***************************************************************************)
EXTENDS Integers, Sequences, FiniteSets, TLC

VARIABLES repo, call, repoCalls, outcome, returned, selected, fs, zipNames, response

vars == <<repo, call, repoCalls, outcome, returned, selected, fs, zipNames, response>>

(***************************************************************************)
(* Bounds of the model.                                                    *)
(***************************************************************************)
\* most events the repository holds
MaxEvents == 2
\* most person detections the repository holds, over all its events
MaxPersons == 3

(***************************************************************************)
(* Python floats: IEEE-754 binary64, non-negative, normal range.           *)
(* A double is [m, e] with value M * 2^e, M = m[1] + m[2]*B + m[3]*B^2 +   *)
(* m[4]*B^3 (B = 2^14), and either 2^52 <= M < 2^53 or M = 0 (then e = 0). *)
(* Limbs of 14 bits keep every intermediate product inside 32-bit          *)
(* integers.                                                               *)
(***************************************************************************)
LimbBase == 2^14

DZero == [m |-> <<0, 0, 0, 0>>, e |-> 0]

IsZero(a) == a.m = <<0, 0, 0, 0>>

\* The 8-limb product of two 4-limb mantissas (schoolbook columns, then carries).
MantissaProduct(a, b) ==
  LET c1 == a[1]*b[1]
      c2 == a[1]*b[2] + a[2]*b[1]
      c3 == a[1]*b[3] + a[2]*b[2] + a[3]*b[1]
      c4 == a[1]*b[4] + a[2]*b[3] + a[3]*b[2] + a[4]*b[1]
      c5 == a[2]*b[4] + a[3]*b[3] + a[4]*b[2]
      c6 == a[3]*b[4] + a[4]*b[3]
      c7 == a[4]*b[4]
      s1 == c1
      s2 == c2 + (s1 \div LimbBase)
      s3 == c3 + (s2 \div LimbBase)
      s4 == c4 + (s3 \div LimbBase)
      s5 == c5 + (s4 \div LimbBase)
      s6 == c6 + (s5 \div LimbBase)
      s7 == c7 + (s6 \div LimbBase)
  IN  << s1 % LimbBase, s2 % LimbBase, s3 % LimbBase, s4 % LimbBase,
         s5 % LimbBase, s6 % LimbBase, s7 % LimbBase, s7 \div LimbBase >>

\* m + 1 on four limbs; the fourth limb takes the last carry.
MantissaIncrement(m) ==
  LET t1 == m[1] + 1
      t2 == m[2] + (t1 \div LimbBase)
      t3 == m[3] + (t2 \div LimbBase)
      t4 == m[4] + (t3 \div LimbBase)
  IN  << t1 % LimbBase, t2 % LimbBase, t3 % LimbBase, t4 >>

\* Round the 8-limb product p (2^104 <= p < 2^106) to 53 bits, to nearest,
\* ties to even; ex is the exponent of p's lowest bit.
RoundProduct(p, ex) ==
  LET s      == IF p[8] >= 2^7 THEN 11 ELSE 10
      lo     == 2^s
      up     == 2^(14 - s)
      q      == << (p[4] \div lo) + (p[5] % lo) * up,
                   (p[5] \div lo) + (p[6] % lo) * up,
                   (p[6] \div lo) + (p[7] % lo) * up,
                   (p[7] \div lo) + (p[8] % lo) * up >>
      guard  == (p[4] \div 2^(s - 1)) % 2
      sticky == (p[4] % 2^(s - 1)) # 0 \/ p[1] # 0 \/ p[2] # 0 \/ p[3] # 0
      roundUp == guard = 1 /\ (sticky \/ q[1] % 2 = 1)
      r      == IF roundUp THEN MantissaIncrement(q) ELSE q
  IN  IF r[4] = 2^11
      THEN [m |-> <<0, 0, 0, 2^10>>, e |-> ex + 42 + s + 1]
      ELSE [m |-> r, e |-> ex + 42 + s]

\* Python's float * float.
FMul(a, b) ==
  IF IsZero(a) \/ IsZero(b) THEN DZero
  ELSE RoundProduct(MantissaProduct(a.m, b.m), a.e + b.e)

\* m * 2 on four limbs.
MantissaDouble(m) ==
  LET t1 == 2 * m[1]
      t2 == 2 * m[2] + (t1 \div LimbBase)
      t3 == 2 * m[3] + (t2 \div LimbBase)
      t4 == 2 * m[4] + (t3 \div LimbBase)
  IN  << t1 % LimbBase, t2 % LimbBase, t3 % LimbBase, t4 >>

RECURSIVE Normalize(_, _)
Normalize(m, e) ==
  IF m[4] >= 2^10 THEN [m |-> m, e |-> e]
  ELSE Normalize(MantissaDouble(m), e - 1)

\* Python's conversion of an int operand to float, for 0 <= n < 2^28 (exact).
IntToDouble(n) ==
  IF n = 0 THEN DZero
  ELSE Normalize(<<n % LimbBase, n \div LimbBase, 0, 0>>, 0)


(***************************************************************************)
(* Values.                                                                 *)
(***************************************************************************)
\* Optional[...]: None, or a value.
NoneV == [none |-> TRUE]

Some(x) == [none |-> FALSE, v |-> x]

\* Python truthiness of an Optional[int] (camera_id): None and 0 are falsy.
TruthyInt(o) == ~o.none /\ o.v # 0

\* Python truthiness of an Optional[str] (start, end): None and "" are falsy.
\* A str is the tuple of its characters.
TruthyStr(o) == ~o.none /\ o.v # <<>>

(***************************************************************************)
(* datetime.fromisoformat, for strings of at most 10 characters: the date  *)
(* form YYYY-MM-DD gives that day's midnight, <<year, month, day>>;        *)
(* anything else raises ValueError.                                        *)
(***************************************************************************)
Digits == {"0", "1", "2", "3", "4", "5", "6", "7", "8", "9"}

DigitValue(c) ==
  CASE c = "0" -> 0 [] c = "1" -> 1 [] c = "2" -> 2 [] c = "3" -> 3 [] c = "4" -> 4
    [] c = "5" -> 5 [] c = "6" -> 6 [] c = "7" -> 7 [] c = "8" -> 8 [] c = "9" -> 9

IsLeap(y) == (y % 4 = 0 /\ y % 100 # 0) \/ y % 400 = 0

DaysInMonth(y, m) ==
  IF m = 2 THEN (IF IsLeap(y) THEN 29 ELSE 28)
  ELSE IF m \in {4, 6, 9, 11} THEN 30 ELSE 31

\* [raised |-> "none", value |-> <<y, m, d>>] or [raised |-> "ValueError"].
fromisoformat(s) ==
  LET shaped == /\ Len(s) = 10
                /\ s[5] = "-" /\ s[8] = "-"
                /\ \A i \in {1, 2, 3, 4, 6, 7, 9, 10} : s[i] \in Digits
      y == 1000 * DigitValue(s[1]) + 100 * DigitValue(s[2])
             + 10 * DigitValue(s[3]) + DigitValue(s[4])
      m == 10 * DigitValue(s[6]) + DigitValue(s[7])
      d == 10 * DigitValue(s[9]) + DigitValue(s[10])
  IN  IF shaped /\ y >= 1 /\ m \in 1..12 /\ d >= 1 /\ d <= DaysInMonth(y, m)
      THEN [raised |-> "none", value |-> <<y, m, d>>]
      ELSE [raised |-> "ValueError", value |-> <<>>]

\* datetime <= datetime.
DtLeq(a, b) ==
  \/ a[1] < b[1]
  \/ a[1] = b[1] /\ a[2] < b[2]
  \/ a[1] = b[1] /\ a[2] = b[2] /\ a[3] <= b[3]

(***************************************************************************)
(* The detection-event repository (DetectionEventRepository port).         *)
(* repo is the stored events in storage order.                             *)
(***************************************************************************)
create_event(events, event) == Append(events, event)

list_events(events) == events

InRange(event, camera_id, start_dt, end_dt) ==
  /\ event.camera_id = camera_id
  /\ DtLeq(start_dt, event.timestamp)
  /\ DtLeq(event.timestamp, end_dt)

get_by_camera_and_range(events, camera_id, start_dt, end_dt) ==
  SelectSeq(events, LAMBDA ev : InRange(ev, camera_id, start_dt, end_dt))

\* The record of one repository call, as repoCalls keeps it.
ListCall == [method |-> "list_events", args |-> <<>>]

RangeCall(camera_id, start_dt, end_dt) ==
  [method |-> "get_by_camera_and_range", args |-> <<camera_id, start_dt, end_dt>>]

\* ListResult with a camera_id given alone applied as a filter.
ListResultCameraAlone(events, camera_id, start, end) ==
  IF TruthyInt(camera_id) /\ TruthyStr(start) /\ TruthyStr(end)
  THEN LET start_dt == fromisoformat(start.v)
           end_dt   == fromisoformat(end.v)
       IN  IF start_dt.raised # "none"
           THEN [raised |-> start_dt.raised, calls |-> <<>>, value |-> <<>>]
           ELSE IF end_dt.raised # "none"
           THEN [raised |-> end_dt.raised, calls |-> <<>>, value |-> <<>>]
           ELSE [raised |-> "none",
                 calls  |-> <<RangeCall(camera_id.v, start_dt.value, end_dt.value)>>,
                 value  |-> get_by_camera_and_range(events, camera_id.v,
                                                    start_dt.value, end_dt.value)]
  ELSE IF TruthyInt(camera_id)
  THEN [raised |-> "none", calls |-> <<ListCall>>,
        value |-> SelectSeq(list_events(events), LAMBDA ev : ev.camera_id = camera_id.v)]
  ELSE [raised |-> "none", calls |-> <<ListCall>>, value |-> list_events(events)]

(***************************************************************************)
(* ListDetectionEventsUseCase.execute as a function of the repository      *)
(* content and the arguments: what it raises, the repository calls it      *)
(* makes, and what it returns.                                             *)
(***************************************************************************)
ListResult(events, camera_id, start, end) ==
  IF TruthyInt(camera_id) /\ TruthyStr(start) /\ TruthyStr(end)
  THEN LET start_dt == fromisoformat(start.v)
           end_dt   == fromisoformat(end.v)
       IN  IF start_dt.raised # "none"
           THEN [raised |-> start_dt.raised, calls |-> <<>>, value |-> <<>>]
           ELSE IF end_dt.raised # "none"
           THEN [raised |-> end_dt.raised, calls |-> <<>>, value |-> <<>>]
           ELSE [raised |-> "none",
                 calls  |-> <<RangeCall(camera_id.v, start_dt.value, end_dt.value)>>,
                 value  |-> get_by_camera_and_range(events, camera_id.v,
                                                    start_dt.value, end_dt.value)]
  ELSE [raised |-> "none", calls |-> <<ListCall>>, value |-> list_events(events)]

\* ExportSelection with a ValueError caught and every event exported.
ExportSelectionCatchesValueError(events, camera_id, start, end) ==
  IF /\ TruthyInt(camera_id) /\ TruthyStr(start) /\ TruthyStr(end)
     /\ fromisoformat(start.v).raised = "none"
     /\ fromisoformat(end.v).raised = "none"
  THEN [raised |-> "none",
        calls  |-> <<RangeCall(camera_id.v, fromisoformat(start.v).value,
                               fromisoformat(end.v).value)>>,
        value  |-> get_by_camera_and_range(events, camera_id.v,
                                           fromisoformat(start.v).value,
                                           fromisoformat(end.v).value)]
  ELSE [raised |-> "none", calls |-> <<ListCall>>, value |-> list_events(events)]

\* ExportSelection with `camera_id is not None` in place of `camera_id`.
ExportSelectionCameraNotNone(events, camera_id, start, end) ==
  IF ~camera_id.none /\ TruthyStr(start) /\ TruthyStr(end)
  THEN LET start_dt == fromisoformat(start.v)
           end_dt   == fromisoformat(end.v)
       IN  IF start_dt.raised # "none"
           THEN [raised |-> start_dt.raised, calls |-> <<>>, value |-> <<>>]
           ELSE IF end_dt.raised # "none"
           THEN [raised |-> end_dt.raised, calls |-> <<>>, value |-> <<>>]
           ELSE [raised |-> "none",
                 calls  |-> <<RangeCall(camera_id.v, start_dt.value, end_dt.value)>>,
                 value  |-> get_by_camera_and_range(events, camera_id.v,
                                                    start_dt.value, end_dt.value)]
  ELSE [raised |-> "none", calls |-> <<ListCall>>, value |-> list_events(events)]

(***************************************************************************)
(* ExportDatumaroUseCase.execute, first part: the exporter's own selection *)
(* of the events.                                                          *)
(***************************************************************************)
ExportSelection(events, camera_id, start, end) ==
  IF TruthyInt(camera_id) /\ TruthyStr(start) /\ TruthyStr(end)
  THEN LET start_dt == fromisoformat(start.v)
           end_dt   == fromisoformat(end.v)
       IN  IF start_dt.raised # "none"
           THEN [raised |-> start_dt.raised, calls |-> <<>>, value |-> <<>>]
           ELSE IF end_dt.raised # "none"
           THEN [raised |-> end_dt.raised, calls |-> <<>>, value |-> <<>>]
           ELSE [raised |-> "none",
                 calls  |-> <<RangeCall(camera_id.v, start_dt.value, end_dt.value)>>,
                 value  |-> get_by_camera_and_range(events, camera_id.v,
                                                    start_dt.value, end_dt.value)]
  ELSE [raised |-> "none", calls |-> <<ListCall>>, value |-> list_events(events)]

(***************************************************************************)
(* ExportDatumaroUseCase.execute, second part: the records.                *)
(***************************************************************************)
\* The dict category_map, in insertion order.
category_map ==
  << [name |-> "none", id |-> 0],
     [name |-> "no_helmet", id |-> 1],
     [name |-> "no_vest", id |-> 2],
     [name |-> "no_helmet_no_vest", id |-> 3] >>

\* key in d
HasKey(d, key) == \E i \in 1..Len(d) : d[i].name = key

\* d[key], for a key of d
GetItem(d, key) == d[CHOOSE i \in 1..Len(d) : d[i].name = key].id

fixed_width == 1920

fixed_height == 1080

\* os.path.basename of a str (the tuple of its characters): what follows the
\* last "/".
RECURSIVE basename(_)
basename(path) ==
  IF path = <<>> THEN <<>>
  ELSE IF path[Len(path)] = "/" THEN <<>>
  ELSE Append(basename(SubSeq(path, 1, Len(path) - 1)), path[Len(path)])

\* ImageId without the + 1.
ImageIdZeroBased(idx) == idx - 1

\* image_id = i + 1, where enumerate's i counts from 0; idx is the event's
\* position counted from 1.
ImageId(idx) == (idx - 1) + 1

ImageRecord(event, image_id) ==
  [id        |-> image_id,
   file_name |-> basename(event.image_url),
   width     |-> fixed_width,
   height    |-> fixed_height]

\* fixed_width and fixed_height as the floats that float * int multiplies by.
FixedWidthFloat == IntToDouble(fixed_width)

FixedHeightFloat == IntToDouble(fixed_height)

\* BBox with y scaled by the width.
BBoxWidthForY(person) ==
  << FMul(person.bbox_x, FixedWidthFloat),
     FMul(person.bbox_y, FixedWidthFloat),
     FMul(person.bbox_width, FixedWidthFloat),
     FMul(person.bbox_height, FixedHeightFloat) >>

\* The "bbox" list of an annotation.
BBox(person) ==
  << FMul(person.bbox_x, FixedWidthFloat),
     FMul(person.bbox_y, FixedHeightFloat),
     FMul(person.bbox_width, FixedWidthFloat),
     FMul(person.bbox_height, FixedHeightFloat) >>

\* The "area" of an annotation, multiplied left to right.
Area(person) ==
  FMul(FMul(FMul(person.bbox_width, person.bbox_height),
            FixedWidthFloat),
       FixedHeightFloat)

\* The annotation dict of one person; category_map[...] is defined for a key.
AnnotationRecord(person, ann_id, image_id) ==
  [id          |-> ann_id,
   image_id    |-> image_id,
   bbox        |-> BBox(person),
   category_id |-> GetItem(category_map, person.violation),
   area        |-> Area(person),
   iscrowd     |-> 0,
   attributes  |-> [violation |-> person.violation]]

\* PersonStep with category_map.get(..., -1) in place of category_map[...].
PersonStepDefaultCategory(st, person, image_id) ==
  IF st.raised # "none" THEN st
  ELSE [st EXCEPT !.annotations =
                    Append(@, [id          |-> st.ann_id,
                               image_id    |-> image_id,
                               bbox        |-> BBox(person),
                               category_id |-> IF HasKey(category_map, person.violation)
                                               THEN GetItem(category_map, person.violation)
                                               ELSE -1,
                               area        |-> Area(person),
                               iscrowd     |-> 0,
                               attributes  |-> [violation |-> person.violation]]),
                  !.ann_id = @ + 1]

\* One pass of the inner loop body. st holds the locals images, annotations,
\* ann_id, and what was raised.
PersonStep(st, person, image_id) ==
  IF st.raised # "none" THEN st
  ELSE IF ~HasKey(category_map, person.violation)
  THEN [st EXCEPT !.raised = "KeyError"]
  ELSE [st EXCEPT !.annotations = Append(@, AnnotationRecord(person, st.ann_id, image_id)),
                  !.ann_id = @ + 1]

RECURSIVE PersonsLoop(_, _, _, _)
PersonsLoop(st, persons, j, image_id) ==
  IF j > Len(persons) THEN st
  ELSE PersonsLoop(PersonStep(st, persons[j], image_id), persons, j + 1, image_id)

\* EventStep with ann_id counted per image.
EventStepResetsAnnId(st, event, idx) ==
  LET image_id == ImageId(idx)
      withImage == [st EXCEPT !.images = Append(@, ImageRecord(event, image_id)),
                              !.ann_id = 1]
  IN  PersonsLoop(withImage, event.persons, 1, image_id)

\* EventStep with no image record for an event without persons.
EventStepSkipsEmpty(st, event, idx) ==
  LET image_id == ImageId(idx)
      withImage == [st EXCEPT !.images = Append(@, ImageRecord(event, image_id))]
  IN  IF event.persons = <<>> THEN st
      ELSE PersonsLoop(withImage, event.persons, 1, image_id)

\* One pass of the outer loop body.
EventStep(st, event, idx) ==
  LET image_id == ImageId(idx)
      withImage == [st EXCEPT !.images = Append(@, ImageRecord(event, image_id))]
  IN  PersonsLoop(withImage, event.persons, 1, image_id)

RECURSIVE EventsLoop(_, _, _)
EventsLoop(st, events, idx) ==
  IF idx > Len(events) \/ st.raised # "none" THEN st
  ELSE EventsLoop(EventStep(st, events[idx], idx), events, idx + 1)

\* Lines 114-145: images, annotations = [], []; ann_id = 1; the two loops.
BuildRecords(events) ==
  EventsLoop([images |-> <<>>, annotations |-> <<>>, ann_id |-> 1, raised |-> "none"],
             events, 1)

(***************************************************************************)
(* ExportDatumaroUseCase.execute, third part: the files and the archive.   *)
(* A path is the tuple of its components; fs maps each path that exists    *)
(* to its entry.                                                           *)
(***************************************************************************)
EmptyFs == [p \in {} |-> [kind |-> "dir"]]

DirEntry == [kind |-> "dir"]

FileEntry(content) == [kind |-> "file", content |-> content]

\* tempfile.mkdtemp(): the invocation's own fresh directory.
temp_dir == <<"tmp", "export">>

\* os.path.join(path, name)
join(path, name) == Append(path, name)

dataset_dir == join(temp_dir, "dataset")

ann_dir == join(dataset_dir, "annotations")

img_dir == join(dataset_dir, "images")

zip_path == join(temp_dir, "datumaro_export.zip")

IsPrefix(a, b) == Len(a) <= Len(b) /\ SubSeq(b, 1, Len(a)) = a

\* os.makedirs(path): the directory and every missing ancestor.
makedirs(f, path) ==
  f @@ [p \in {SubSeq(path, 1, k) : k \in 1..Len(path)} \ DOMAIN f |-> DirEntry]

\* open(path, "w") and json.dump(content, f): the file holds the document.
WriteFile(f, path, content) == (path :> FileEntry(content)) @@ f

\* os.path.relpath(path, start), for a path under start.
relpath(path, start) == SubSeq(path, Len(start) + 1, Len(path))

\* Every full_path the os.walk(top) loops visit: the files below top.
WalkFiles(f, top) ==
  {p \in DOMAIN f : f[p].kind = "file" /\ IsPrefix(top, p) /\ Len(p) > Len(top)}

\* ArcNames with the names taken relative to dataset_dir.
ArcNamesRelativeToDataset(f) ==
  {relpath(full_path, dataset_dir) : full_path \in WalkFiles(f, dataset_dir)}

\* The arcname of every zipf.write of lines 169-174.
ArcNames(f) == {relpath(full_path, temp_dir) : full_path \in WalkFiles(f, dataset_dir)}

\* AnnotationDocument listing only the categories the annotations use.
AnnotationDocumentUsedCategories(images, annotations) ==
  [images      |-> images,
   annotations |-> annotations,
   categories  |-> SelectSeq([i \in 1..Len(category_map) |->
                                [id |-> category_map[i].id, name |-> category_map[i].name]],
                             LAMBDA c : \E k \in 1..Len(annotations) :
                                          annotations[k].category_id = c.id),
   info        |-> <<>>]

\* The annotation document of lines 156-161.
AnnotationDocument(images, annotations) ==
  [images      |-> images,
   annotations |-> annotations,
   categories  |-> [i \in 1..Len(category_map) |->
                      [id |-> category_map[i].id, name |-> category_map[i].name]],
   info        |-> <<>>]

\* The metadata document of line 165.
MetaDocument == [categories |-> [i \in 1..Len(category_map) |-> category_map[i].name]]

\* Lines 147-165: the directory tree and the two documents.
DatasetTree(images, annotations) ==
  LET f0 == makedirs(EmptyFs, temp_dir)
      f1 == makedirs(f0, ann_dir)
      f2 == makedirs(f1, img_dir)
      f3 == WriteFile(f2, join(ann_dir, "instances_default.json"),
                      AnnotationDocument(images, annotations))
  IN  WriteFile(f3, join(dataset_dir, "dataset_meta.json"), MetaDocument)

\* Line 169: the archive file exists from the moment it is opened.
WithArchive(f) == WriteFile(f, zip_path, <<>>)

FileResponse(path, filename, media_type) ==
  [path |-> path, filename |-> filename, media_type |-> media_type]

(***************************************************************************)
(* The state and the operations.                                           *)
(*   repo       the repository's events, in storage order                  *)
(*   call       the latest use-case invocation and its arguments           *)
(*   repoCalls  the repository calls that invocation made                  *)
(*   outcome    "idle", "returned", or the exception it raised             *)
(*   returned   the events it returned (list, add)                         *)
(*   selected   the exporter's local `events`                              *)
(*   fs         the temporary directory tree that invocation created       *)
(*   zipNames   the entry names of the archive it wrote                    *)
(*   response   the FileResponse it returned, or None                      *)
(***************************************************************************)
Invocation(op, camera_id, start, end) ==
  [op |-> op, camera_id |-> camera_id, start |-> start, end |-> end]

Init ==
  /\ repo = <<>>
  /\ call = Invocation("idle", NoneV, NoneV, NoneV)
  /\ repoCalls = <<>>
  /\ outcome = "idle"
  /\ returned = <<>>
  /\ selected = <<>>
  /\ fs = EmptyFs
  /\ zipNames = {}
  /\ response = NoneV

RECURSIVE TotalPersons(_)
TotalPersons(events) ==
  IF events = <<>> THEN 0
  ELSE Len(Head(events).persons) + TotalPersons(Tail(events))

\* AddDetectionEventUseCase.execute(event)
AddDetectionEventUseCase_execute(event) ==
  /\ Len(repo) < MaxEvents
  /\ TotalPersons(repo) + Len(event.persons) <= MaxPersons
  /\ repo' = create_event(repo, event)
  /\ call' = Invocation("add", NoneV, NoneV, NoneV)
  /\ repoCalls' = <<[method |-> "create_event", args |-> <<>>]>>
  /\ outcome' = "returned"
  /\ returned' = <<event>>
  /\ selected' = <<>>
  /\ fs' = EmptyFs
  /\ zipNames' = {}
  /\ response' = NoneV

\* ListDetectionEventsUseCase.execute(camera_id, start, end)
ListDetectionEventsUseCase_execute(camera_id, start, end) ==
  \E r \in {ListResult(repo, camera_id, start, end)} :
      /\ call' = Invocation("list", camera_id, start, end)
      /\ repoCalls' = r.calls
      /\ outcome' = IF r.raised = "none" THEN "returned" ELSE r.raised
      /\ returned' = r.value
      /\ selected' = <<>>
      /\ fs' = EmptyFs
      /\ zipNames' = {}
      /\ response' = NoneV
      /\ UNCHANGED repo

\* ExportDatumaroUseCase.execute(camera_id, start, end). An exception leaves
\* the rest of the body undone: a ValueError of line 100 or 101 comes before
\* the events are selected, a KeyError of line 138 before the temporary
\* directory of line 147 exists. (Each intermediate result is bound once.)
ExportDatumaroUseCase_execute(camera_id, start, end) ==
  \E sel \in {ExportSelection(repo, camera_id, start, end)} :
  \E recs \in {BuildRecords(sel.value)} :
      /\ call' = Invocation("export", camera_id, start, end)
      /\ repoCalls' = sel.calls
      /\ returned' = <<>>
      /\ UNCHANGED repo
      /\ IF sel.raised # "none"
         THEN /\ outcome' = sel.raised
              /\ selected' = <<>>
              /\ fs' = EmptyFs
              /\ zipNames' = {}
              /\ response' = NoneV
         ELSE IF recs.raised # "none"
         THEN /\ outcome' = recs.raised
              /\ selected' = sel.value
              /\ fs' = EmptyFs
              /\ zipNames' = {}
              /\ response' = NoneV
         ELSE /\ outcome' = "returned"
              /\ selected' = sel.value
              /\ fs' = WithArchive(DatasetTree(recs.images, recs.annotations))
              /\ zipNames' = ArcNames(fs')
              /\ response' = Some(FileResponse(zip_path, "datumaro_export.zip",
                                               "application/zip"))

(***************************************************************************)
(* The inputs.                                                             *)
(***************************************************************************)
\* 0.1, 0.2, 0.3, 0.4, 0.6, 0.7 as the doubles Python reads them as.
D01 == [m |-> <<6554, 9830, 6553, 1638>>, e |-> -56]

D02 == [m |-> <<6554, 9830, 6553, 1638>>, e |-> -55]

D03 == [m |-> <<13107, 3276, 13107, 1228>>, e |-> -54]

D04 == [m |-> <<6554, 9830, 6553, 1638>>, e |-> -54]

D06 == [m |-> <<13107, 3276, 13107, 1228>>, e |-> -53]

D07 == [m |-> <<9830, 6553, 9830, 1433>>, e |-> -53]

Person(x, y, w, h, violation) ==
  [bbox_x |-> x, bbox_y |-> y, bbox_width |-> w, bbox_height |-> h,
   violation |-> violation]

\* One person per violation state, and one whose state is no key of
\* category_map; two boxes, (0.1, 0.2, 0.3, 0.4) and (0.0, 0.2, 0.7, 0.6).
PersonInputs ==
  { Person(D01, D02, D03, D04, "none"),
    Person(DZero, D02, D07, D06, "no_helmet"),
    Person(DZero, D02, D07, D06, "no_vest"),
    Person(D01, D02, D03, D04, "no_helmet_no_vest"),
    Person(D01, D02, D03, D04, "no_gloves") }

SeqsUpTo(S, n) == UNION {[1..k -> S] : k \in 0..n}

Event(camera_id, timestamp, image_url, persons) ==
  [camera_id |-> camera_id, timestamp |-> timestamp, image_url |-> image_url,
   persons |-> persons]

UrlA == <<"f", "/", "a", ".", "j", "p", "g">>

UrlB == <<"b", ".", "j", "p", "g">>

\* Events of one camera and one day, with every sequence of persons.
EventInputs ==
  {Event(1, <<2024, 5, 2>>, UrlA, ps) : ps \in SeqsUpTo(PersonInputs, MaxPersons)}

\* Events of two cameras, inside and outside May 1st to May 3rd, no persons.
QueryEventInputs ==
  {Event(c, t, UrlB, <<>>) : c \in {1, 2}, t \in {<<2024, 5, 2>>, <<2024, 6, 1>>}}

StrMay1 == <<"2", "0", "2", "4", "-", "0", "5", "-", "0", "1">>

StrMay3 == <<"2", "0", "2", "4", "-", "0", "5", "-", "0", "3">>

StrYesterday == <<"y", "e", "s", "t", "e", "r", "d", "a", "y">>

StrMonth13 == <<"2", "0", "2", "4", "-", "1", "3", "-", "0", "1">>

CameraIdInputs == {NoneV, Some(0), Some(1)}

StartInputs == {NoneV, Some(<<>>), Some(StrMay1), Some(StrYesterday)}

EndInputs == {NoneV, Some(<<>>), Some(StrMay3), Some(StrMonth13)}

\* No filter, and a full filter.
ArgInputs == {<<NoneV, NoneV, NoneV>>, <<Some(1), Some(StrMay1), Some(StrMay3)>>}

(***************************************************************************)
(* Spec: the use cases over events with persons.                           *)
(***************************************************************************)
AddDetectionEvent == \E event \in EventInputs : AddDetectionEventUseCase_execute(event)

ListDetectionEvents ==
  \E a \in ArgInputs : ListDetectionEventsUseCase_execute(a[1], a[2], a[3])

ExportDatumaro ==
  \E a \in ArgInputs : ExportDatumaroUseCase_execute(a[1], a[2], a[3])

Next == AddDetectionEvent \/ ListDetectionEvents \/ ExportDatumaro

Spec == Init /\ [][Next]_vars

(***************************************************************************)
(* QuerySpec: the use cases over every combination of filter arguments.    *)
(***************************************************************************)
QueryAddDetectionEvent ==
  \E event \in QueryEventInputs : AddDetectionEventUseCase_execute(event)

QueryListDetectionEvents ==
  \E c \in CameraIdInputs, s \in StartInputs, e \in EndInputs :
    ListDetectionEventsUseCase_execute(c, s, e)

QueryExportDatumaro ==
  \E c \in CameraIdInputs, s \in StartInputs, e \in EndInputs :
    ExportDatumaroUseCase_execute(c, s, e)

QueryNext == QueryAddDetectionEvent \/ QueryListDetectionEvents \/ QueryExportDatumaro

QuerySpec == Init /\ [][QueryNext]_vars

(***************************************************************************)
(* What the properties read from a state.                                  *)
(***************************************************************************)
\* The latest invocation was an export that returned its FileResponse.
Exported == call.op = "export" /\ outcome = "returned"

AnnDoc == fs[<<"tmp", "export", "dataset", "annotations", "instances_default.json">>].content

MetaDoc == fs[<<"tmp", "export", "dataset", "dataset_meta.json">>].content

\* The persons of the events, event after event.
RECURSIVE FlatPersons(_)
FlatPersons(events) ==
  IF events = <<>> THEN <<>>
  ELSE Head(events).persons \o FlatPersons(Tail(events))

\* The number of persons of the events before the i-th.
PersonsBefore(events, i) == Len(FlatPersons(SubSeq(events, 1, i - 1)))

KnownViolations == {"none", "no_helmet", "no_vest", "no_helmet_no_vest"}

ExpectedCategoryId(violation) ==
  CASE violation = "none" -> 0
    [] violation = "no_helmet" -> 1
    [] violation = "no_vest" -> 2
    [] violation = "no_helmet_no_vest" -> 3

\* All three filter arguments of the latest invocation are truthy.
AllSupplied ==
  /\ call.camera_id \in {Some(1)}
  /\ call.start \in {Some(StrMay1), Some(StrYesterday)}
  /\ call.end \in {Some(StrMay3), Some(StrMonth13)}

\* A start or end that is given, not empty, and no ISO-8601 string.
Malformed(o) == o \in {Some(StrYesterday), Some(StrMonth13)}

(***************************************************************************)
(* C1. After an export, the ids of the annotation records, in the order    *)
(* they were emitted, are 1, 2, ..., N, where N is the number of person    *)
(* detections of all selected events; the counter is not reset between     *)
(* events.                                                                 *)
(***************************************************************************)
C1_AnnotationIdsSequential ==
  Exported =>
    /\ Len(AnnDoc.annotations) = Len(FlatPersons(selected))
    /\ \A k \in 1..Len(AnnDoc.annotations) : AnnDoc.annotations[k].id = k

\* An export of an event with two persons followed by one with one person.
C1_Witness ==
  /\ Exported
  /\ Len(selected) = 2
  /\ Len(selected[1].persons) = 2
  /\ Len(selected[2].persons) = 1
  /\ Len(AnnDoc.annotations) = 3
  /\ AnnDoc.annotations[3].id = 3

(***************************************************************************)
(* C2. A list call in which camera_id, start or end is absent returns all  *)
(* events, the result of list_events(), and never calls                    *)
(* get_by_camera_and_range; so camera_id alone gives what no filter gives. *)
(***************************************************************************)
C2_PartialFilterIgnored ==
  (call.op = "list" /\ (call.camera_id.none \/ call.start.none \/ call.end.none)) =>
    /\ outcome = "returned"
    /\ returned = repo
    /\ repoCalls = <<[method |-> "list_events", args |-> <<>>]>>

\* A list call with camera_id 1 alone over events of cameras 1 and 2.
C2_Witness ==
  /\ call = Invocation("list", Some(1), NoneV, NoneV)
  /\ Len(repo) = 2
  /\ repo[1].camera_id = 2
  /\ repo[2].camera_id = 1
  /\ returned = repo

(***************************************************************************)
(* C3, as claimed. After an export the archive's entry names contain       *)
(* dataset/annotations/instances_default.json and a top-level              *)
(* dataset_meta.json, beside the dataset/ folder.                          *)
(***************************************************************************)
C3_Original ==
  Exported =>
    /\ <<"dataset", "annotations", "instances_default.json">> \in zipNames
    /\ <<"dataset_meta.json">> \in zipNames

(***************************************************************************)
(* C3, amended. After an export the archive's entry names contain          *)
(* dataset/annotations/instances_default.json and                          *)
(* dataset/dataset_meta.json: the metadata file lies inside the dataset/   *)
(* folder, and no entry is a top-level dataset_meta.json.                  *)
(***************************************************************************)
C3_MetaInsideDataset ==
  Exported =>
    /\ <<"dataset", "annotations", "instances_default.json">> \in zipNames
    /\ <<"dataset", "dataset_meta.json">> \in zipNames
    /\ <<"dataset_meta.json">> \notin zipNames
    /\ \A name \in zipNames : name[1] = "dataset"

\* An export that returned the archive of a non-empty selection.
C3_Witness ==
  /\ Exported
  /\ selected # <<>>
  /\ ~response.none
  /\ response.v.filename = "datumaro_export.zip"
  /\ zipNames # {}

(***************************************************************************)
(* C4. The person detection of the example and the floats of its record.   *)
(***************************************************************************)
\* bbox_x = 0.1, bbox_y = 0.2, bbox_width = 0.3, bbox_height = 0.4
IsExampleBox(person) ==
  /\ person.bbox_x = D01
  /\ person.bbox_y = D02
  /\ person.bbox_width = D03
  /\ person.bbox_height = D04

\* [192.0, 216.0, 576.0, 432.0]
ExampleBBox == <<IntToDouble(192), IntToDouble(216), IntToDouble(576), IntToDouble(432)>>

\* 248831.99999999997 = 0x1.e5fffffffffffp+17, the float below 248832.0
ExampleArea == [m |-> <<16383, 16383, 16383, 1943>>, e |-> -35]

(***************************************************************************)
(* C4, as claimed. The annotation record of a person with bbox_x = 0.1,    *)
(* bbox_y = 0.2, bbox_width = 0.3, bbox_height = 0.4 has bbox              *)
(* [192.0, 216.0, 576.0, 432.0] and area 139968.0.                         *)
(***************************************************************************)
C4_Original ==
  Exported =>
    \A k \in 1..Len(AnnDoc.annotations) :
      IsExampleBox(FlatPersons(selected)[k]) =>
        /\ AnnDoc.annotations[k].bbox = ExampleBBox
        /\ AnnDoc.annotations[k].area = IntToDouble(139968)

(***************************************************************************)
(* C4, amended. The annotation record of that person has bbox              *)
(* [192.0, 216.0, 576.0, 432.0] and area 248831.99999999997, the float     *)
(* product ((0.3 * 0.4) * 1920) * 1080, which is neither 139968.0 nor      *)
(* 248832.0.                                                               *)
(***************************************************************************)
C4_ExampleBoxAndArea ==
  Exported =>
    /\ Len(AnnDoc.annotations) = Len(FlatPersons(selected))
    /\ \A k \in 1..Len(AnnDoc.annotations) :
         IsExampleBox(FlatPersons(selected)[k]) =>
           /\ AnnDoc.annotations[k].bbox = ExampleBBox
           /\ AnnDoc.annotations[k].area = ExampleArea
           /\ AnnDoc.annotations[k].area # IntToDouble(139968)
           /\ AnnDoc.annotations[k].area # IntToDouble(248832)

\* An export whose second annotation is of a person with the example's box.
C4_Witness ==
  /\ Exported
  /\ Len(FlatPersons(selected)) >= 2
  /\ IsExampleBox(FlatPersons(selected)[2])
  /\ ~IsExampleBox(FlatPersons(selected)[1])
  /\ AnnDoc.annotations[2].area = ExampleArea

(***************************************************************************)
(* C5. After an export of any selection, the empty one included, the       *)
(* annotation document's categories are {0 none}, {1 no_helmet},           *)
(* {2 no_vest}, {3 no_helmet_no_vest}, in that order, and the metadata     *)
(* document's categories are the same four names in the same order.        *)
(***************************************************************************)
C5_CategoriesFixed ==
  Exported =>
    /\ AnnDoc.categories = << [id |-> 0, name |-> "none"],
                              [id |-> 1, name |-> "no_helmet"],
                              [id |-> 2, name |-> "no_vest"],
                              [id |-> 3, name |-> "no_helmet_no_vest"] >>
    /\ MetaDoc.categories = <<"none", "no_helmet", "no_vest", "no_helmet_no_vest">>

\* An export in which only the state no_vest occurs.
C5_Witness ==
  /\ Exported
  /\ FlatPersons(selected) # <<>>
  /\ \A k \in 1..Len(FlatPersons(selected)) : FlatPersons(selected)[k].violation = "no_vest"
  /\ Len(AnnDoc.categories) = 4

(***************************************************************************)
(* C6. After an export there is one image record per selected event and    *)
(* one annotation record per person detection; an event without persons    *)
(* has its image record and no annotation record with its image id.        *)
(***************************************************************************)
C6_EmptyEventKeepsImage ==
  Exported =>
    /\ Len(AnnDoc.images) = Len(selected)
    /\ Len(AnnDoc.annotations) = Len(FlatPersons(selected))
    /\ \A i \in 1..Len(selected) :
         selected[i].persons = <<>> =>
           /\ Cardinality({n \in 1..Len(AnnDoc.images) : AnnDoc.images[n].id = i}) = 1
           /\ \A k \in 1..Len(AnnDoc.annotations) : AnnDoc.annotations[k].image_id # i

\* An export of an event without persons followed by an event with persons.
C6_Witness ==
  /\ Exported
  /\ Len(selected) = 2
  /\ selected[1].persons = <<>>
  /\ selected[2].persons # <<>>
  /\ Len(AnnDoc.images) = 2

(***************************************************************************)
(* C7, as claimed. A list or export call fails with the malformed-         *)
(* timestamp error, returning no events and no archive, whenever a start   *)
(* or end is given that is no ISO-8601 string, whatever the other          *)
(* arguments are.                                                          *)
(***************************************************************************)
C7_Original ==
  (call.op \in {"list", "export"} /\ (Malformed(call.start) \/ Malformed(call.end))) =>
    /\ outcome = "ValueError"
    /\ returned = <<>>
    /\ response = NoneV

(***************************************************************************)
(* C7, amended. A list or export call fails with the malformed-timestamp   *)
(* error exactly when camera_id, start and end are all truthy and start or *)
(* end is no ISO-8601 string; it then returns no events and no archive,    *)
(* calls the repository not at all and writes no file. When camera_id is   *)
(* absent or 0, or start or end is absent or empty, a malformed start or   *)
(* end is ignored and all events are returned or exported.                 *)
(***************************************************************************)
C7_MalformedOnlyWhenAllSupplied ==
  call.op \in {"list", "export"} =>
    /\ outcome = "ValueError" <=>
         (AllSupplied /\ (Malformed(call.start) \/ Malformed(call.end)))
    /\ outcome = "ValueError" =>
         /\ returned = <<>>
         /\ selected = <<>>
         /\ repoCalls = <<>>
         /\ response = NoneV
         /\ fs = EmptyFs
         /\ zipNames = {}
    /\ (outcome # "ValueError" /\ ~AllSupplied) =>
         /\ repoCalls = <<[method |-> "list_events", args |-> <<>>]>>
         /\ (call.op = "list" => returned = repo)
         /\ (call.op = "export" => selected = repo)

\* An export with all three arguments truthy and a month 13 as end.
C7_Witness ==
  /\ call = Invocation("export", Some(1), Some(StrMay1), Some(StrMonth13))
  /\ repo # <<>>
  /\ outcome = "ValueError"
  /\ response = NoneV

(***************************************************************************)
(* C8. An export that selects a person detection whose violation state is  *)
(* no key of the category map raises, wherever that person stands: it      *)
(* returns no archive, and it writes no annotation document, no metadata   *)
(* document and no zip file.                                               *)
(***************************************************************************)
C8_UnknownViolationAborts ==
  (/\ call.op = "export"
   /\ outcome # "ValueError"
   /\ \E k \in 1..Len(FlatPersons(selected)) :
        FlatPersons(selected)[k].violation \notin KnownViolations) =>
    /\ outcome = "KeyError"
    /\ response = NoneV
    /\ fs = EmptyFs
    /\ zipNames = {}

\* An export in which the unknown state is that of the last of three persons,
\* in the second event.
C8_Witness ==
  /\ call.op = "export"
  /\ outcome = "KeyError"
  /\ Len(selected) = 2
  /\ Len(selected[1].persons) = 1
  /\ Len(selected[2].persons) = 2
  /\ selected[1].persons[1].violation \in KnownViolations
  /\ selected[2].persons[1].violation \in KnownViolations
  /\ selected[2].persons[2].violation \notin KnownViolations

(***************************************************************************)
(* C9. After an export the k-th selected event has the image record with   *)
(* id k, and the annotation record of each of its persons has image_id k,  *)
(* the category id of the person's violation state and that state's name   *)
(* as attributes.violation; so every image_id is the id of an image record *)
(* and image_id never decreases along the annotations.                     *)
(***************************************************************************)
C9_ImageAndCategoryIds ==
  Exported =>
    /\ Len(AnnDoc.images) = Len(selected)
    /\ Len(AnnDoc.annotations) = Len(FlatPersons(selected))
    /\ \A i \in 1..Len(selected) :
         /\ AnnDoc.images[i].id = i
         /\ \A j \in 1..Len(selected[i].persons) :
              LET a == AnnDoc.annotations[PersonsBefore(selected, i) + j]
                  person == selected[i].persons[j]
              IN  /\ a.image_id = i
                  /\ a.category_id = ExpectedCategoryId(person.violation)
                  /\ a.attributes.violation = person.violation
    /\ \A k \in 1..Len(AnnDoc.annotations) :
         /\ \E n \in 1..Len(AnnDoc.images) :
              AnnDoc.images[n].id = AnnDoc.annotations[k].image_id
         /\ k > 1 => AnnDoc.annotations[k - 1].image_id <= AnnDoc.annotations[k].image_id

\* An export whose second event holds a person without helmet and vest.
C9_Witness ==
  /\ Exported
  /\ Len(selected) = 2
  /\ Len(selected[1].persons) = 1
  /\ Len(selected[2].persons) = 1
  /\ selected[2].persons[1].violation = "no_helmet_no_vest"
  /\ AnnDoc.annotations[2].image_id = 2
  /\ AnnDoc.annotations[2].category_id = 3

(***************************************************************************)
(* C10. For camera_id absent, 0 or not 0 and start and end absent, empty   *)
(* or valid, an export selects the events a list call with the same        *)
(* arguments returns: get_by_camera_and_range(camera_id, start, end) when  *)
(* all three are truthy, list_events() otherwise; so camera_id 0 with a    *)
(* valid start and end selects all events.                                 *)
(***************************************************************************)
C10_ExportSelectsAsList ==
  (/\ call.op = "export"
   /\ call.start \in {NoneV, Some(<<>>), Some(StrMay1)}
   /\ call.end \in {NoneV, Some(<<>>), Some(StrMay3)}) =>
    /\ outcome = "returned"
    /\ selected = ListResult(repo, call.camera_id, call.start, call.end).value
    /\ repoCalls = ListResult(repo, call.camera_id, call.start, call.end).calls
    /\ IF call.camera_id = Some(1) /\ call.start = Some(StrMay1) /\ call.end = Some(StrMay3)
       THEN repoCalls = << [method |-> "get_by_camera_and_range",
                            args |-> <<1, <<2024, 5, 1>>, <<2024, 5, 3>>>>] >>
       ELSE repoCalls = <<[method |-> "list_events", args |-> <<>>]>> /\ selected = repo

\* An export with camera_id 0 and a valid start and end, over two events.
C10_Witness ==
  /\ call = Invocation("export", Some(0), Some(StrMay1), Some(StrMay3))
  /\ Len(repo) = 2
  /\ repo[1].camera_id # repo[2].camera_id
  /\ selected = repo
  /\ outcome = "returned"

====
